---- MODULE Spec2Model ----
(***************************************************************************)
(* Model of the object and query-option helpers of the ORM:                *)
(*   src/lib/utils/object.ts  mergeDefaults, merge, cloneDeep,             *)
(*                            flattenObjectDeep                            *)
(*   src/unnamed/part_000     mapOptionFieldNames, mapWhereFieldNames,     *)
(*                            getComplexKeys, getOperators,                *)
(*                            combineTableNames                            *)
(*                                                                         *)
(* JavaScript values live in a heap of cells (plain objects, arrays and    *)
(* non-plain instances), so that aliasing, cloning and in-place mutation   *)
(* are visible.  A value is a record [t, n, s]: t is the typeof-like tag,  *)
(* n a number (or the heap address of a "ref"), s a string.                *)
(***************************************************************************)
EXTENDS Integers, Sequences, FiniteSets, TLC

VARIABLES
    heap,     \* the cells allocated so far; the address of a cell is its index
    Model,    \* Model.rawAttributes: attribute name -> [field, fieldName, type]
    kind,     \* which family of inputs this behaviour was started with
    args,     \* the arguments the caller holds
    call,     \* the last function called ("none" before the first call)
    ret,      \* what the last call returned
    prev,     \* what the call before the last returned
    pre,      \* the heap as it was just before the last call
    ncalls    \* how many calls were made

vars == <<heap, Model, kind, args, call, ret, prev, pre, ncalls>>

(***************************** values ***************************************)

Undefined == [t |-> "undefined", n |-> 0, s |-> ""]
Null == [t |-> "null", n |-> 0, s |-> ""]
Num(i) == [t |-> "number", n |-> i, s |-> ""]
Str(x) == [t |-> "string", n |-> 0, s |-> x]
Bool(b) == [t |-> "boolean", n |-> IF b THEN 1 ELSE 0, s |-> ""]
\* a function value; s is "native" for a built-in, "user" otherwise
Fn(i, how) == [t |-> "function", n |-> i, s |-> how]
Ref(a) == [t |-> "ref", n |-> a, s |-> ""]

\* JavaScript truthiness (used by `!x`, `x && ...`, `x || y`, `x ? a : b`)
Truthy(v) ==
    CASE v.t = "undefined" -> FALSE
      [] v.t = "null" -> FALSE
      [] v.t = "number" -> v.n # 0
      [] v.t = "boolean" -> v.n = 1
      [] v.t = "string" -> v.s # ""
      [] OTHER -> TRUE

\* typeof v === 'object' (null included)
TypeofObject(v) == v.t \in {"null", "ref"}

(***************************** keys *****************************************)

\* The operator symbols (Op.or, Op.and) and a symbol that is no operator.
OpOr == "Symbol(or)"
OpAnd == "Symbol(and)"
OtherSymbol == "Symbol(other)"
operatorsSet == {OpOr, OpAnd}
IsSymbol(k) == k \in operatorsSet \cup {OtherSymbol}

\* The canonical array-index keys "0", "1", ...
IndexKeys == <<"0", "1", "2", "3", "4", "5">>
IsIndexKey(k) == \E i \in 1..Len(IndexKeys) : IndexKeys[i] = k
IndexOf(k) == (CHOOSE i \in 1..Len(IndexKeys) : IndexKeys[i] = k) - 1
IndexKey(i) == IF i + 1 \in 1..Len(IndexKeys) THEN IndexKeys[i + 1] ELSE "big"

(***************************** heap *****************************************)

Entry(k, v) == [key |-> k, val |-> v]
Cell(k, p) == [k |-> k, p |-> p]

Alloc(h, cell) == [h |-> Append(h, cell), v |-> Ref(Len(h) + 1)]

isPlainObject(h, v) == v.t = "ref" /\ h[v.n].k = "object"
isArray(h, v) == v.t = "ref" /\ h[v.n].k = "array"

PropIndex(p, k) ==
    LET I == {i \in 1..Len(p) : p[i].key = k}
    IN IF I = {} THEN 0 ELSE CHOOSE i \in I : TRUE

\* obj[k]
Get(h, v, k) ==
    IF v.t # "ref" THEN Undefined
    ELSE LET cell == h[v.n]
             i == PropIndex(cell.p, k)
         IN IF cell.k = "array" /\ k = "length" THEN Num(Len(cell.p))
            ELSE IF i = 0 THEN Undefined ELSE cell.p[i].val

RECURSIVE Pad(_, _)
Pad(p, len) == IF Len(p) >= len THEN p ELSE Pad(Append(p, Entry(IndexKey(Len(p)), Undefined)), len)

\* obj[k] = val
Put(h, v, k, val) ==
    LET cell == h[v.n]
        i == PropIndex(cell.p, k)
        p2 == IF i # 0 THEN [cell.p EXCEPT ![i].val = val]
              ELSE IF cell.k = "array" /\ IsIndexKey(k)
                   THEN Append(Pad(cell.p, IndexOf(k)), Entry(k, val))
                   ELSE Append(cell.p, Entry(k, val))
    IN [h EXCEPT ![v.n].p = p2]

\* delete obj[k]
Delete(h, v, k) ==
    [h EXCEPT ![v.n].p = SelectSeq(@, LAMBDA e : e.key # k)]

\* Object.keys(obj): the own enumerable string keys, integer-like keys first
ObjectKeys(h, v) ==
    IF v.t # "ref" THEN <<>>
    ELSE LET p == h[v.n].p
             present(k) == PropIndex(p, k) # 0
             idx == SelectSeq(IndexKeys, present)
             strs == SelectSeq(p, LAMBDA e : ~IsSymbol(e.key) /\ ~IsIndexKey(e.key))
         IN idx \o [i \in 1..Len(strs) |-> strs[i].key]

\* Object.getOwnPropertySymbols(obj)
OwnSymbols(h, v) ==
    IF v.t # "ref" THEN <<>>
    ELSE LET syms == SelectSeq(h[v.n].p, LAMBDA e : IsSymbol(e.key))
         IN [i \in 1..Len(syms) |-> syms[i].key]

(***************************** part_000 *************************************)

getOperators(h, obj) == SelectSeq(OwnSymbols(h, obj), LAMBDA s : s \in operatorsSet)

getComplexKeys(h, obj) == getOperators(h, obj) \o ObjectKeys(h, obj)

(***************************** object.ts: cloneDeep *************************)

\* elem && typeof elem.clone === 'function': only a function can carry a
\* clone method here (objects are answered before this test is reached).
HasCloneMethod(v) == v.t = "function" /\ v.s = "clonable"

RECURSIVE baseClone(_, _, _), cloneProps(_, _, _, _)

\* lodash cloneDeepWith driven by cloneDeep's customizer: arrays and plain
\* objects are copied cell by cell (string and symbol keys), every other
\* object is returned as is, a value with a clone method is asked to clone
\* itself, and primitives and functions are returned unchanged.
baseClone(h, value, onlyPlain) ==
    IF isArray(h, value) \/ isPlainObject(h, value)
    THEN LET cell == h[value.n]
             a == Alloc(h, Cell(cell.k, <<>>))
         IN [h |-> cloneProps(a.h, a.v, cell.p, onlyPlain), v |-> a.v]
    ELSE IF onlyPlain \/ TypeofObject(value) THEN [h |-> h, v |-> value]
    ELSE IF Truthy(value) /\ HasCloneMethod(value)
         THEN [h |-> h, v |-> Fn(value.n, "cloned")]
    ELSE [h |-> h, v |-> value]

cloneProps(h, target, entries, onlyPlain) ==
    IF entries = <<>> THEN h
    ELSE LET e == Head(entries)
             c == baseClone(h, e.val, onlyPlain)
         IN cloneProps(Put(c.h, target, e.key, c.v), target, Tail(entries), onlyPlain)

\* faulty variant: no copy is made, the caller's object is handed back
cloneDeepNoCopy(h, obj, onlyPlain) ==
    IF Truthy(obj) THEN [h |-> h, v |-> obj]
    ELSE Alloc(h, Cell("object", <<>>))

\* cloneDeepWith(obj || {}, customizer)
cloneDeep(h, obj, onlyPlain) ==
    IF Truthy(obj) THEN baseClone(h, obj, onlyPlain)
    ELSE Alloc(h, Cell("object", <<>>))

(***************************** part_000: field names ************************)

NoAttribute == [field |-> "", fieldName |-> "", type |-> "undefined"]

\* Model.rawAttributes[name]
RawAttribute(M, name) == IF name \in DOMAIN M THEN M[name] ELSE NoAttribute

\* rawAttribute && ...
Defined(rawAttribute) == rawAttribute.type # "undefined"

\* rawAttribute.type instanceof DataTypes.HSTORE || ... instanceof DataTypes.JSON
IsHstoreOrJson(rawAttribute) == rawAttribute.type \in {"HSTORE", "JSON"}

\* `i < attributes.length`: the relational comparison of a number with
\* whatever `length` holds; undefined, objects and non-numeric strings
\* compare as NaN and end the loop.
LessThanLength(i, len) ==
    CASE len.t = "number" -> i < len.n
      [] len.t = "boolean" -> i < len.n
      [] len.t = "null" -> i < 0
      [] OTHER -> FALSE

RECURSIVE mapWhereFieldNames(_, _, _), mapOptionFieldNames(_, _, _)
RECURSIVE mapAttributes(_, _, _, _), WhereKeys(_, _, _, _), WhereArray(_, _, _, _, _)

\* faulty variant: the attribute is replaced by its column, without the alias pair
mapAttributeNoAlias(h, attr, M) ==
    LET raw == RawAttribute(M, attr.s)
    IN IF attr.t = "string" /\ Defined(raw) /\ attr.s # raw.field
       THEN [h |-> h, v |-> Str(raw.field)]
       ELSE [h |-> h, v |-> attr]

\* the callback of options.attributes.map(attr => ...): [h, v]
mapAttribute(h, attr, M) ==
    LET raw == RawAttribute(M, attr.s)
    IN IF attr.t # "string" THEN [h |-> h, v |-> attr]
       ELSE IF Defined(raw) /\ attr.s # raw.field
            THEN Alloc(h, Cell("array", <<Entry("0", Str(raw.field)), Entry("1", attr)>>))
       ELSE [h |-> h, v |-> attr]

\* options.attributes.map(...), filling the new array `target`
mapAttributes(h, target, elems, M) ==
    IF elems = <<>> THEN h
    ELSE LET m == mapAttribute(h, Head(elems).val, M)
         IN mapAttributes(Put(m.h, target, IndexKey(Len(h[target.n].p)), m.v),
                          target, Tail(elems), M)

mapOptionFieldNames(h, options, M) ==
    LET attrs == Get(h, options, "attributes")
        h1 == IF isArray(h, attrs)
              THEN LET a == Alloc(h, Cell("array", <<>>))
                       hm == mapAttributes(a.h, a.v, h[attrs.n].p, M)
                   IN Put(hm, options, "attributes", a.v)
              ELSE h
        where == Get(h1, options, "where")
        h2 == IF Truthy(where) /\ isPlainObject(h1, where)
              THEN LET r == mapWhereFieldNames(h1, where, M)
                   IN Put(r.h, options, "where", r.v)
              ELSE h1
    IN [h |-> h2, v |-> options]

\* the inner loop `for (let i = 0; i < attributes.length; i++)`
WhereArray(h, attributes, attributeName, i, M) ==
    IF ~LessThanLength(i, Get(h, attributes, "length")) THEN h
    ELSE LET where == Get(h, attributes, IndexKey(i))
         IN IF isPlainObject(h, where)
            THEN LET r == mapWhereFieldNames(h, where, M)
                 IN WhereArray(Put(r.h, Get(r.h, attributes, attributeName), IndexKey(i), r.v),
                               attributes, attributeName, i + 1, M)
            ELSE WhereArray(h, attributes, attributeName, i + 1, M)

\* the body of `for (const attributeName of getComplexKeys(attributes))`
WhereKey(h, attributes, attributeName, M) ==
    LET rawAttribute == RawAttribute(M, attributeName)
        h1 == IF Defined(rawAttribute) /\ rawAttribute.field # rawAttribute.fieldName
              THEN Delete(Put(h, attributes, rawAttribute.field,
                              Get(h, attributes, attributeName)),
                          attributes, attributeName)
              ELSE h
        v1 == Get(h1, attributes, attributeName)
        h2 == IF isPlainObject(h1, v1)
                 /\ ~(Defined(rawAttribute) /\ IsHstoreOrJson(rawAttribute))
              THEN LET o == Alloc(h1, Cell("object", <<Entry("where", v1)>>))
                       r == mapOptionFieldNames(o.h, o.v, M)
                   IN Put(r.h, attributes, attributeName, Get(r.h, r.v, "where"))
              ELSE h1
    IN IF isArray(h2, Get(h2, attributes, attributeName))
       THEN WhereArray(h2, attributes, attributeName, 0, M)
       ELSE h2

WhereKeys(h, attributes, keys, M) ==
    IF keys = <<>> THEN h
    ELSE WhereKeys(WhereKey(h, attributes, Head(keys), M), attributes, Tail(keys), M)

mapWhereFieldNames(h, attributes, M) ==
    IF ~Truthy(attributes) THEN [h |-> h, v |-> attributes]
    ELSE LET c == cloneDeep(h, attributes, FALSE)
         IN [h |-> WhereKeys(c.h, c.v, getComplexKeys(c.h, c.v), M), v |-> c.v]

(***************************** object.ts: merge *****************************)

\* an array literal holding the given entries, re-indexed from 0
Reindex(p) == [i \in 1..Len(p) |-> Entry(IndexKey(i - 1), p[i].val)]

RECURSIVE merge(_, _), mergeArgs(_, _, _), mergeOwn(_, _, _, _)

\* faulty variant: two arrays are joined the other way round
mergeValueAppending(h, result, key, value) ==
    LET acc == Get(h, result, key)
    IN IF value = Undefined THEN h
       ELSE IF ~Truthy(acc) THEN Put(h, result, key, value)
       ELSE IF isPlainObject(h, value) /\ isPlainObject(h, acc)
            THEN LET m == merge(h, <<acc, value>>)
                 IN Put(m.h, result, key, m.v)
       ELSE IF isArray(h, value) /\ isArray(h, acc)
            THEN LET a == Alloc(h, Cell("array", Reindex(h[acc.n].p \o h[value.n].p)))
                 IN Put(a.h, result, key, a.v)
       ELSE Put(h, result, key, value)

\* the callback of forOwn(obj, (value, key) => ...)
mergeValue(h, result, key, value) ==
    LET acc == Get(h, result, key)
    IN IF value = Undefined THEN h
       ELSE IF ~Truthy(acc) THEN Put(h, result, key, value)
       ELSE IF isPlainObject(h, value) /\ isPlainObject(h, acc)
            THEN LET m == merge(h, <<acc, value>>)
                 IN Put(m.h, result, key, m.v)
       ELSE IF isArray(h, value) /\ isArray(h, acc)
            THEN LET a == Alloc(h, Cell("array", Reindex(h[value.n].p \o h[acc.n].p)))
                 IN Put(a.h, result, key, a.v)
       ELSE Put(h, result, key, value)

\* forOwn over the keys lodash visits: the own enumerable string keys
mergeOwn(h, result, obj, keys) ==
    IF keys = <<>> THEN h
    ELSE mergeOwn(mergeValue(h, result, Head(keys), Get(h, obj, Head(keys))),
                  result, obj, Tail(keys))

mergeArgs(h, result, objs) ==
    IF objs = <<>> THEN h
    ELSE mergeArgs(mergeOwn(h, result, Head(objs),
                            IF Truthy(Head(objs)) THEN ObjectKeys(h, Head(objs)) ELSE <<>>),
                   result, Tail(objs))

merge(h, objs) ==
    LET r == Alloc(h, Cell("object", <<>>))
    IN [h |-> mergeArgs(r.h, r.v, objs), v |-> r.v]

(***************************** object.ts: mergeDefaults *********************)

isFunction(v) == v.t = "function"
baseIsNative(v) == v.t = "function" /\ v.s = "native"
\* lodash isObject: a non-null object or a function
isObject(v) == v.t \in {"ref", "function"}

\* the customizer handed to mergeWith; Undefined tells lodash to merge itself
Customizer(h, objectValue, sourceValue) ==
    IF ~isPlainObject(h, objectValue) /\ objectValue # Undefined
    THEN IF isFunction(objectValue) /\ baseIsNative(objectValue)
         THEN IF Truthy(sourceValue) THEN sourceValue ELSE objectValue
         ELSE objectValue
    ELSE Undefined

HasOwn(h, v, k) == v.t = "ref" /\ PropIndex(h[v.n].p, k) # 0

\* lodash assignMergeValue
assignMergeValue(h, object, key, value) ==
    IF \/ value # Undefined /\ Get(h, object, key) # value
       \/ value = Undefined /\ ~HasOwn(h, object, key)
    THEN Put(h, object, key, value)
    ELSE h

\* lodash isArrayLikeObject on a value that is undefined or a plain object
isArrayLikeObject(h, v) ==
    /\ isPlainObject(h, v)
    /\ Get(h, v, "length").t = "number"
    /\ Get(h, v, "length").n >= 0

\* lodash copyArray
copyArray(h, v) ==
    [i \in 1..Get(h, v, "length").n |-> Entry(IndexKey(i - 1), Get(h, v, IndexKey(i - 1)))]

RECURSIVE baseMerge(_, _, _), baseMergeKeys(_, _, _, _), baseMergeDeep(_, _, _, _)

\* lodash baseMergeDeep, with the customizer above
baseMergeDeep(h, object, source, key) ==
    LET objValue == Get(h, object, key)
        srcValue == Get(h, source, key)
        custom == Customizer(h, objValue, srcValue)
    IN IF custom # Undefined THEN assignMergeValue(h, object, key, custom)
       ELSE IF isArray(h, srcValue) THEN
           LET n == IF isArray(h, objValue) THEN [h |-> h, v |-> objValue]
                    ELSE IF isArrayLikeObject(h, objValue)
                         THEN Alloc(h, Cell("array", copyArray(h, objValue)))
                    ELSE Alloc(h, Cell("array", <<>>))
           IN assignMergeValue(baseMerge(n.h, n.v, srcValue), object, key, n.v)
       ELSE IF isPlainObject(h, srcValue) THEN
           LET n == IF ~isObject(objValue) \/ isFunction(objValue)
                    THEN Alloc(h, Cell("object", <<>>))
                    ELSE [h |-> h, v |-> objValue]
           IN assignMergeValue(baseMerge(n.h, n.v, srcValue), object, key, n.v)
       ELSE assignMergeValue(h, object, key, srcValue)

baseMergeKeys(h, object, source, keys) ==
    IF keys = <<>> THEN h
    ELSE LET key == Head(keys)
             srcValue == Get(h, source, key)
             custom == Customizer(h, Get(h, object, key), srcValue)
             h1 == IF isObject(srcValue) THEN baseMergeDeep(h, object, source, key)
                   ELSE assignMergeValue(h, object, key,
                                         IF custom = Undefined THEN srcValue ELSE custom)
         IN baseMergeKeys(h1, object, source, Tail(keys))

\* lodash baseMerge: over keysIn(source), the enumerable string keys
baseMerge(h, object, source) ==
    IF object = source THEN h
    ELSE baseMergeKeys(h, object, source, ObjectKeys(h, source))

\* mergeWith(a, b, customizer): returns a
mergeDefaults(h, a, b) ==
    [h |-> IF Truthy(b) THEN baseMerge(h, a, b) ELSE h, v |-> a]

(***************************** object.ts: flattenObjectDeep *****************)

RECURSIVE flattenObject(_, _, _, _), flattenKeys(_, _, _, _, _)

flattenKeys(h, flattenedObj, obj, subPath, keys) ==
    IF keys = <<>> THEN h
    ELSE LET key == Head(keys)
             pathToProperty == IF Truthy(subPath) THEN subPath.s \o "." \o key ELSE key
             value == Get(h, obj, key)
             h1 == IF TypeofObject(value) /\ value # Null
                   THEN flattenObject(h, flattenedObj, value, Str(pathToProperty))
                   ELSE Put(h, flattenedObj, pathToProperty, value)
         IN flattenKeys(h1, flattenedObj, obj, subPath, Tail(keys))

flattenObject(h, flattenedObj, obj, subPath) ==
    flattenKeys(h, flattenedObj, obj, subPath, ObjectKeys(h, obj))

flattenObjectDeep(h, value) ==
    IF ~isPlainObject(h, value) THEN [h |-> h, v |-> value]
    ELSE LET f == Alloc(h, Cell("object", <<>>))
         IN [h |-> flattenObject(f.h, f.v, value, Undefined), v |-> f.v]

(***************************** part_000: combineTableNames ******************)

\* A table name is the sequence of its UTF-16 code units.
LowerChar(c) == IF c \in 65..90 THEN c + 32 ELSE c
toLowerCase(str) == [i \in 1..Len(str) |-> LowerChar(str[i])]

\* the relational comparison `x < y` of two strings
RECURSIVE StringLess(_, _)
StringLess(x, y) ==
    IF y = <<>> THEN FALSE
    ELSE IF x = <<>> THEN TRUE
    ELSE IF Head(x) # Head(y) THEN Head(x) < Head(y)
    ELSE StringLess(Tail(x), Tail(y))

combineTableNames(tableName1, tableName2) ==
    IF StringLess(toLowerCase(tableName1), toLowerCase(tableName2))
    THEN tableName1 \o tableName2
    ELSE tableName2 \o tableName1

(***************************** trees ****************************************)

\* An input is written as a tree [t, n, s, c] (c: the ordered entries of an
\* object or array) and built into the heap; a result is read back as a view,
\* the same shape with c the unordered set of entries.

TLeaf(v) == [t |-> v.t, n |-> v.n, s |-> v.s, c |-> <<>>]
TObj(c) == [t |-> "object", n |-> 0, s |-> "", c |-> c]
TArr(elems) ==
    [t |-> "array", n |-> 0, s |-> "",
     c |-> [i \in 1..Len(elems) |-> Entry(IndexKey(i - 1), elems[i])]]
TInst(i) == [t |-> "instance", n |-> i, s |-> "", c |-> <<>>]

IsCellTree(tr) == tr.t \in {"object", "array", "instance"}

RECURSIVE Build(_, _), BuildProps(_, _, _)

Build(h, tr) ==
    IF IsCellTree(tr)
    THEN LET a == Alloc(h, Cell(tr.t, <<>>))
         IN [h |-> BuildProps(a.h, a.v, tr.c), v |-> a.v]
    ELSE [h |-> h, v |-> [t |-> tr.t, n |-> tr.n, s |-> tr.s]]

BuildProps(h, target, entries) ==
    IF entries = <<>> THEN h
    ELSE LET b == Build(h, Head(entries).val)
         IN BuildProps([b.h EXCEPT ![target.n].p = Append(@, Entry(Head(entries).key, b.v))],
                       target, Tail(entries))

RECURSIVE View(_, _)

\* The value v of heap h as an unordered tree; an instance keeps its address,
\* which is its identity.
View(h, v) ==
    IF v.t = "ref"
    THEN [t |-> h[v.n].k, n |-> IF h[v.n].k = "instance" THEN v.n ELSE 0, s |-> "",
          c |-> {Entry(h[v.n].p[i].key, View(h, h[v.n].p[i].val)) : i \in 1..Len(h[v.n].p)}]
    ELSE [t |-> v.t, n |-> v.n, s |-> v.s, c |-> {}]

VKeys(w) == {e.key : e \in w.c}
VGet(w, k) == (CHOOSE e \in w.c : e.key = k).val
VPlain(w) == w.t = "object"

(***************************** inputs ***************************************)

MaxDepth == 2
MaxCalls == 2
MaxAttrs == 2
MaxMergeArgs == 3
MaxNameLen == 2

Model1 ==
    [a |-> [field |-> "a", fieldName |-> "a", type |-> "STRING"],
     j |-> [field |-> "cj", fieldName |-> "j", type |-> "JSON"]]
Model2 ==
    [a |-> [field |-> "cj", fieldName |-> "a", type |-> "STRING"],
     j |-> [field |-> "j", fieldName |-> "j", type |-> "JSON"]]
Model3 ==
    [a |-> [field |-> "j", fieldName |-> "a", type |-> "STRING"],
     j |-> [field |-> "cj", fieldName |-> "j", type |-> "HSTORE"]]
Models == {Model1, Model2, Model3}

WhereKeySet == {"a", "j", "cj", OpOr}
WhereLeaves == {TLeaf(Num(1)), TLeaf(Num(2))}

\* the objects of at most one entry
Objs1(K, V) == {TObj(<<>>)} \cup {TObj(<<Entry(k, v)>>) : k \in K, v \in V}
\* the objects of two entries, in both orders of insertion
Objs2(K, V1, V2) ==
    {TObj(<<Entry(k1, v1), Entry(k2, v2)>>) :
        <<k1, k2>> \in {q \in K \X K : q[1] # q[2]}, <<v1, v2>> \in (V1 \X V2) \cup (V2 \X V1)}

RECURSIVE WhereValues(_)
WhereValues(d) ==
    IF d = 0 THEN WhereLeaves
    ELSE LET V == WhereValues(d - 1)
         IN WhereLeaves \cup Objs1(WhereKeySet, V)
                \cup {TArr(<<o>>) : o \in {x \in V : x.t = "object"}}

\* where objects that carry a `length` and an index key of their own
IndexedWheres ==
    {TObj(<<Entry("length", TLeaf(Num(n))), Entry("0", TObj(<<Entry("a", TLeaf(Num(1)))>>)),
            Entry(k, TArr(<<TObj(<<Entry("j", TLeaf(Num(2)))>>)>>))>>) :
        n \in 0..1, k \in {OpOr, "cj"}}

\* a where object keyed by a symbol that is no operator
SymbolWheres == {TObj(<<Entry(OtherSymbol, TObj(<<Entry("a", TLeaf(Num(1)))>>))>>)}

WhereInputs ==
    LET V == WhereValues(MaxDepth)
    IN Objs1(WhereKeySet, V) \cup Objs2(WhereKeySet, V, WhereLeaves) \cup IndexedWheres
           \cup SymbolWheres \cup {TLeaf(Undefined), TLeaf(Null)}

\* options.attributes: attribute names, a number and an already aliased pair
AttrElems ==
    {TLeaf(Str("a")), TLeaf(Str("j")), TLeaf(Str("cj")), TLeaf(Num(1)),
     TArr(<<TLeaf(Str("cj")), TLeaf(Str("a"))>>)}

RECURSIVE SeqsUpTo(_, _)
\* the sequences over S of length at most n
SeqsUpTo(S, n) ==
    IF n = 0 THEN {<<>>}
    ELSE LET R == SeqsUpTo(S, n - 1)
         IN R \cup {Append(q, x) : q \in R, x \in S}

OptionsInputs ==
    {TObj(<<Entry("attributes", TArr(l))>>) : l \in SeqsUpTo(AttrElems, MaxAttrs)}
        \cup {TObj(<<Entry("where", w)>>) : w \in WhereInputs}
        \cup {TObj(<<>>),
              TObj(<<Entry("attributes", TLeaf(Str("a")))>>),
              TObj(<<Entry("where", TArr(<<TObj(<<Entry("a", TLeaf(Num(1)))>>)>>))>>),
              TObj(<<Entry("where", TInst(1))>>),
              TObj(<<Entry("attributes", TArr(<<TLeaf(Str("a"))>>)),
                     Entry("where", TObj(<<Entry("a", TLeaf(Num(1)))>>))>>)}

\* merge: falsy and truthy primitives, undefined, arrays, nested objects
MergeLeaves ==
    {TLeaf(Undefined), TLeaf(Null), TLeaf(Num(0)), TLeaf(Num(1)), TLeaf(Str("")),
     TLeaf(Bool(FALSE)), TArr(<<TLeaf(Num(1))>>), TArr(<<TLeaf(Num(2))>>)}
MergeNested ==
    Objs1({"k"}, {TLeaf(Undefined), TLeaf(Num(1)), TArr(<<TLeaf(Num(1))>>)})
        \cup {TObj(<<Entry(OpOr, TLeaf(Num(1)))>>)}
MergeObjects ==
    Objs1({"k"}, MergeLeaves \cup MergeNested)
        \cup {TObj(<<Entry(OpOr, TLeaf(Num(1)))>>), TLeaf(Undefined)}
MergeInputs == SeqsUpTo(MergeObjects, MaxMergeArgs) \ SeqsUpTo(MergeObjects, 1)

\* cloneDeep: primitives, functions with and without a clone method, a
\* non-plain instance, arrays and nested objects, under string and symbol keys
CloneLeaves ==
    {TLeaf(Num(1)), TLeaf(Null), TLeaf(Fn(1, "clonable")), TLeaf(Fn(2, "user")), TInst(1)}
CloneInputs ==
    LET K == {"k", OpOr, OtherSymbol}
        V == CloneLeaves \cup Objs1(K, CloneLeaves) \cup {TArr(<<x>>) : x \in CloneLeaves}
    IN Objs1(K, V) \cup CloneLeaves \cup {TLeaf(Undefined), TArr(<<TObj(<<>>)>>)}

\* mergeDefaults: as for merge, with functions and a non-plain instance
DefaultsLeaves ==
    {TLeaf(Undefined), TLeaf(Null), TLeaf(Num(0)), TLeaf(Num(2)), TLeaf(Str("")),
     TLeaf(Bool(FALSE)), TArr(<<TLeaf(Num(1))>>), TLeaf(Fn(1, "native")),
     TLeaf(Fn(2, "user")), TInst(1)}
DefaultsObjects ==
    LET V == DefaultsLeaves \cup Objs1({"y"}, DefaultsLeaves)
    IN Objs1({"x"}, V) \cup Objs2({"x", "y"}, {TLeaf(Num(2))}, {TLeaf(Num(0))})
           \cup {TObj(<<Entry("x", TLeaf(Num(1))), Entry(OpOr, TLeaf(Num(1)))>>)}
DefaultsInputs == {<<a, b>> : a \in DefaultsObjects, b \in DefaultsObjects \cup {TLeaf(Undefined)}}

\* flattenObjectDeep: keys with a dot and the empty key included
FlattenKeySet == {"a", "b", "a.b", ""}
FlattenLeaves == {TLeaf(Num(1)), TLeaf(Null)}
RECURSIVE FlattenValues(_)
FlattenValues(d) ==
    IF d = 0 THEN FlattenLeaves
    ELSE LET V == FlattenValues(d - 1)
         IN FlattenLeaves \cup Objs1(FlattenKeySet, V) \cup {TArr(<<x>>) : x \in V}
                \cup {TInst(1)}
FlattenInputs ==
    LET V == FlattenValues(MaxDepth)
    IN V \cup Objs2(FlattenKeySet, V, FlattenLeaves)

\* table names over the letters A, B and a
NameChars == {65, 66, 97}
TableNames == SeqsUpTo(NameChars, MaxNameLen)

(***************************** behaviour ************************************)

RECURSIVE BuildAll(_, _, _)
\* the trees of a sequence built one after the other: [h, vs]
BuildAll(h, trees, vs) ==
    IF trees = <<>> THEN [h |-> h, vs |-> vs]
    ELSE LET b == Build(h, Head(trees))
         IN BuildAll(b.h, Tail(trees), Append(vs, b.v))

InitHeap(k, trees, M) ==
    LET b == BuildAll(<<>>, trees, <<>>)
    IN /\ heap = b.h
       /\ args = b.vs
       /\ Model = M
       /\ kind = k

InitWhere == \E tr \in WhereInputs, M \in Models : InitHeap("where", <<tr>>, M)
InitOptions == \E tr \in OptionsInputs, M \in Models : InitHeap("options", <<tr>>, M)
InitMerge == \E trs \in MergeInputs : InitHeap("merge", trs, Model1)
InitClone == \E tr \in CloneInputs : InitHeap("clone", <<tr>>, Model1)
InitDefaults == \E trs \in DefaultsInputs : InitHeap("defaults", trs, Model1)
InitFlatten == \E tr \in FlattenInputs : InitHeap("flatten", <<tr>>, Model1)
InitTables ==
    \E t1 \in TableNames, t2 \in TableNames :
        /\ heap = <<>>
        /\ args = <<t1, t2>>
        /\ Model = Model1
        /\ kind = "tables"

Init ==
    /\ \/ InitWhere
       \/ InitOptions
       \/ InitMerge
       \/ InitClone
       \/ InitDefaults
       \/ InitFlatten
       \/ InitTables
    /\ call = "none"
    /\ ret = Undefined
    /\ prev = Undefined
    /\ pre = heap
    /\ ncalls = 0

Returned(name, r) ==
    /\ heap' = r.h
    /\ ret' = r.v
    /\ prev' = ret
    /\ pre' = heap
    /\ call' = name
    /\ ncalls' = ncalls + 1
    /\ UNCHANGED <<Model, kind, args>>

\* mapWhereFieldNames(where, Model)
CallMapWhereFieldNames ==
    /\ kind = "where"
    /\ call = "none"
    /\ Returned("mapWhereFieldNames", mapWhereFieldNames(heap, args[1], Model))

\* mapOptionFieldNames(options, Model), which the caller may repeat
CallMapOptionFieldNames ==
    /\ kind = "options"
    /\ ncalls < MaxCalls
    /\ Returned("mapOptionFieldNames", mapOptionFieldNames(heap, args[1], Model))

\* cloneDeep(obj, onlyPlain)
CallCloneDeep ==
    /\ kind = "clone"
    /\ call = "none"
    /\ \E onlyPlain \in BOOLEAN :
          Returned("cloneDeep", cloneDeep(heap, args[1], onlyPlain))

\* merge(o1, ..., on)
CallMerge ==
    /\ kind = "merge"
    /\ call = "none"
    /\ Returned("merge", merge(heap, args))

\* mergeDefaults(a, b)
CallMergeDefaults ==
    /\ kind = "defaults"
    /\ call = "none"
    /\ Returned("mergeDefaults", mergeDefaults(heap, args[1], args[2]))

\* flattenObjectDeep(value)
CallFlattenObjectDeep ==
    /\ kind = "flatten"
    /\ call = "none"
    /\ Returned("flattenObjectDeep", flattenObjectDeep(heap, args[1]))

\* combineTableNames(t1, t2), by one side of an association
CallCombineTableNames ==
    /\ kind = "tables"
    /\ call = "none"
    /\ Returned("combineTableNames", [h |-> heap, v |-> combineTableNames(args[1], args[2])])

\* combineTableNames(t2, t1), by the other side
CallCombineTableNamesSwapped ==
    /\ kind = "tables"
    /\ call = "combineTableNames"
    /\ ncalls < MaxCalls
    /\ Returned("combineTableNames", [h |-> heap, v |-> combineTableNames(args[2], args[1])])

Next ==
    \/ CallMapWhereFieldNames
    \/ CallMapOptionFieldNames
    \/ CallCloneDeep
    \/ CallMerge
    \/ CallMergeDefaults
    \/ CallFlattenObjectDeep
    \/ CallCombineTableNames
    \/ CallCombineTableNamesSwapped

Spec == Init /\ [][Next]_vars

\* The same behaviours, one family of inputs at a time.
InitOf(family) ==
    /\ family
    /\ call = "none"
    /\ ret = Undefined
    /\ prev = Undefined
    /\ pre = heap
    /\ ncalls = 0

NextFields == CallMapWhereFieldNames \/ CallMapOptionFieldNames
SpecFields == InitOf(InitWhere \/ InitOptions) /\ [][NextFields]_vars

NextMerge == CallMerge \/ CallCloneDeep
SpecMerge == InitOf(InitMerge \/ InitClone) /\ [][NextMerge]_vars

NextDefaults == CallMergeDefaults
SpecDefaults == InitOf(InitDefaults) /\ [][NextDefaults]_vars

NextFlatten == CallFlattenObjectDeep
SpecFlatten == InitOf(InitFlatten) /\ [][NextFlatten]_vars

NextTables == CallCombineTableNames \/ CallCombineTableNamesSwapped
SpecTables == InitOf(InitTables) /\ [][NextTables]_vars

(***************************** properties ***********************************)

\* the first argument before the call, and the result after it
In == View(pre, args[1])
Out == View(heap, ret)

\* the column an attribute key is renamed to (the key itself when it names no
\* attribute, or one whose column is its name)
ColumnOf(M, k) ==
    IF k \in DOMAIN M /\ M[k].field # M[k].fieldName THEN M[k].field ELSE k
IsJsonKey(M, k) == k \in DOMAIN M /\ M[k].type \in {"HSTORE", "JSON"}

RECURSIVE WhereMapped(_, _, _)
\* out is in with its attribute keys replaced by their columns: every entry of
\* in is found under its column, a renamed entry with the same value, a plain
\* object under a key that is not renamed mapped in the same way, and out has
\* as many entries as in.
WhereMapped(in, out, M) ==
    /\ out.t = "object"
    /\ VKeys(out) = {ColumnOf(M, k) : k \in VKeys(in)}
    /\ Cardinality(VKeys(out)) = Cardinality(VKeys(in))
    /\ \A e \in in.c :
        LET o == VGet(out, ColumnOf(M, e.key))
        IN IF ColumnOf(M, e.key) # e.key \/ IsJsonKey(M, e.key) THEN o = e.val
           ELSE IF e.val.t = "object" THEN WhereMapped(e.val, o, M)
           ELSE IF e.val.t = "array" THEN o.t = "array"
           ELSE o = e.val

\* C1: mapWhereFieldNames returns the where object with every key that names
\* an attribute of a different column replaced by that column, carrying the
\* same value, at the top level and in the plain objects nested under keys
\* that are not renamed; the other keys are kept and no condition is lost.
C1_WhereKeysMapped ==
    (call = "mapWhereFieldNames" /\ VPlain(In)) => WhereMapped(In, Out, Model)

\* C2: under a key that holds an array (and is not itself renamed), every
\* plain-object element of the array comes back with its attribute keys
\* replaced by their columns.
C2_ArrayElementsMapped ==
    (call = "mapWhereFieldNames" /\ VPlain(In)) =>
        \A e \in In.c :
            (e.val.t = "array" /\ ColumnOf(Model, e.key) = e.key) =>
                /\ e.key \in VKeys(Out)
                /\ VKeys(VGet(Out, e.key)) = VKeys(e.val)
                /\ \A el \in e.val.c :
                    el.val.t = "object" =>
                        VKeys(VGet(VGet(Out, e.key), el.key))
                            = {ColumnOf(Model, k) : k \in VKeys(el.val)}

\* C3: the plain object stored under a key that names an HSTORE or JSON
\* attribute is returned, under that attribute's column, exactly as it was:
\* no key inside it is renamed at any depth.
C3_JsonObjectsUntouched ==
    (call = "mapWhereFieldNames" /\ VPlain(In)) =>
        \A e \in In.c :
            (IsJsonKey(Model, e.key) /\ e.val.t = "object") =>
                /\ ColumnOf(Model, e.key) \in VKeys(Out)
                /\ VGet(Out, ColumnOf(Model, e.key)) = e.val

RECURSIVE OperatorKeysKept(_, _, _)
\* every operator-symbol entry of in is an entry of out (with the same value
\* when sameValue), in in itself and in the plain objects nested in it
OperatorKeysKept(in, out, sameValue) ==
    \A e \in in.c :
        /\ e.key \in operatorsSet =>
              /\ e.key \in VKeys(out)
              /\ sameValue => VGet(out, e.key) = e.val
        /\ (e.val.t = "object" /\ e.key \in VKeys(out)) =>
              OperatorKeysKept(e.val, VGet(out, e.key), sameValue)

\* C4: the operator-symbol keys of an object are preserved, at the top level
\* and in nested plain objects, by cloneDeep, by merge (for every argument)
\* and by mapWhereFieldNames.
C4_OperatorKeysPreserved ==
    /\ (call = "cloneDeep" /\ VPlain(In)) => OperatorKeysKept(In, Out, TRUE)
    /\ call = "merge" =>
          \A i \in 1..Len(args) : OperatorKeysKept(View(pre, args[i]), Out, FALSE)
    /\ (call = "mapWhereFieldNames" /\ VPlain(In)) => OperatorKeysKept(In, Out, FALSE)

\* options.attributes before and after the call
AttributesIn == View(pre, Get(pre, args[1], "attributes"))
AttributesOut == View(heap, Get(heap, ret, "attributes"))

\* the view of the pair [field, attribute name]
AliasPair(field, name) ==
    [t |-> "array", n |-> 0, s |-> "",
     c |-> {Entry("0", [t |-> "string", n |-> 0, s |-> field, c |-> {}]),
            Entry("1", [t |-> "string", n |-> 0, s |-> name, c |-> {}])}]

\* C5: mapOptionFieldNames maps options.attributes element by element,
\* keeping length and order: a string naming an attribute of a different
\* column becomes the pair [column, name], every other element stays; and a
\* second application leaves options.attributes as the first left it.
C5_AttributesAliased ==
    (call = "mapOptionFieldNames" /\ AttributesIn.t = "array") =>
        /\ ret = args[1]
        /\ AttributesOut.t = "array"
        /\ VKeys(AttributesOut) = VKeys(AttributesIn)
        /\ \A e \in AttributesIn.c :
              VGet(AttributesOut, e.key) =
                  IF e.val.t = "string" /\ ColumnOf(Model, e.val.s) # e.val.s
                  THEN AliasPair(ColumnOf(Model, e.val.s), e.val.s)
                  ELSE e.val
        /\ ncalls >= 2 => AttributesOut = AttributesIn

\* a second application over a list in which the first made the pair [j, a]
C5_Witness ==
    /\ call = "mapOptionFieldNames"
    /\ ncalls = 2
    /\ AttributesIn.t = "array"
    /\ \E e \in AttributesOut.c : e.val = AliasPair("j", "a")

\* the where object the caller handed in: the argument of mapWhereFieldNames,
\* or options.where of mapOptionFieldNames
CallerWhere == IF call = "mapWhereFieldNames" THEN args[1] ELSE Get(pre, args[1], "where")

RECURSIVE Reach(_, _)
\* the addresses of the plain objects and arrays nested in v, v included
Reach(h, v) ==
    IF v.t # "ref" \/ h[v.n].k = "instance" THEN {}
    ELSE {v.n} \cup UNION {Reach(h, h[v.n].p[i].val) : i \in 1..Len(h[v.n].p)}

\* C6: after mapWhereFieldNames(where, Model) or mapOptionFieldNames({where},
\* Model), the caller's where object and every plain object and array nested
\* in it hold exactly the entries they held before the call.
C6_CallerWhereUntouched ==
    call \in {"mapWhereFieldNames", "mapOptionFieldNames"} =>
        /\ \A a \in Reach(pre, CallerWhere) : heap[a] = pre[a]
        /\ View(heap, CallerWhere) = View(pre, CallerWhere)

\* a call that renamed a key under an operator symbol, in its result
C6_Witness ==
    /\ call \in {"mapWhereFieldNames", "mapOptionFieldNames"}
    /\ Model = Model2
    /\ LET w == View(pre, CallerWhere)
           r == View(heap, IF call = "mapWhereFieldNames" THEN ret ELSE Get(heap, ret, "where"))
       IN /\ VPlain(w) /\ OpOr \in VKeys(w)
          /\ VPlain(VGet(w, OpOr)) /\ "a" \in VKeys(VGet(w, OpOr))
          /\ VPlain(r) /\ OpOr \in VKeys(r)
          /\ "cj" \in VKeys(VGet(r, OpOr))

VUndefined == [t |-> "undefined", n |-> 0, s |-> "", c |-> {}]
\* the value under k, undefined when k is absent
VAt(w, k) == IF k \in VKeys(w) THEN VGet(w, k) ELSE VUndefined

RECURSIVE DefaultsKept(_, _)
\* every property of before that was defined and not a plain object has the
\* same value in after, at every depth of nested plain objects
DefaultsKept(before, after) ==
    \A e \in before.c :
        IF e.val.t = "object" THEN DefaultsKept(e.val, VAt(after, e.key))
        ELSE e.val.t # "undefined" => VAt(after, e.key) = e.val

\* C7: mergeDefaults(a, b) returns a; every property of a that was defined and
\* not a plain object keeps its value, at every depth of nested plain
\* objects; a property that was undefined or absent in a receives b's value.
C7_DefaultsNotOverwritten ==
    call = "mergeDefaults" =>
        /\ ret = args[1]
        /\ DefaultsKept(View(pre, args[1]), View(heap, args[1]))
        /\ \A e \in View(pre, args[2]).c :
              (~IsSymbol(e.key) /\ VAt(View(pre, args[1]), e.key).t = "undefined") =>
                  VAt(View(heap, args[1]), e.key) = e.val

RECURSIVE Leaves(_)
\* the leaves of a tree (the values that are null or no object), each with the
\* keys on the path to it
Leaves(w) ==
    UNION {IF e.val.t \in {"object", "array", "instance"}
           THEN {[path |-> <<e.key>> \o l.path, val |-> l.val] : l \in Leaves(e.val)}
           ELSE {[path |-> <<e.key>>, val |-> e.val]} : e \in w.c}

RECURSIVE JoinDots(_)
JoinDots(path) ==
    IF Len(path) = 1 THEN path[1] ELSE path[1] \o "." \o JoinDots(Tail(path))

\* C8: flattenObjectDeep of a plain object is an object of depth 1 with
\* exactly one entry per leaf of the input, keyed by the keys on the path to
\* the leaf joined with '.', holding the leaf's value; any other input is
\* returned as it is.
C8_FlattenedPerLeaf ==
    call = "flattenObjectDeep" =>
        IF VPlain(In)
        THEN /\ Out.t = "object"
             /\ \A e \in Out.c : e.val.t \notin {"object", "array", "instance"}
             /\ Out.c = {Entry(JoinDots(l.path), l.val) : l \in Leaves(In)}
             /\ Cardinality(Out.c) = Cardinality(Leaves(In))
        ELSE ret = args[1]

\* the elements of an array view, in index order
VElems(w) == [i \in 1..Cardinality(w.c) |-> VGet(w, IndexKey(i - 1))]
VArray(elems) ==
    [t |-> "array", n |-> 0, s |-> "",
     c |-> {Entry(IndexKey(i - 1), elems[i]) : i \in 1..Len(elems)}]

RECURSIVE MergeFold(_), MergeStep(_, _), FoldKey(_, _, _)

\* one step of the fold: the accumulated value and the next argument's value
MergeStep(acc, v) ==
    IF v.t = "undefined" THEN acc
    ELSE IF acc.t = "object" /\ v.t = "object" THEN MergeFold(<<acc, v>>)
    ELSE IF acc.t = "array" /\ v.t = "array" THEN VArray(VElems(v) \o VElems(acc))
    ELSE v

\* the values of key k in the arguments, folded from the left
FoldKey(ws, k, acc) ==
    IF ws = <<>> THEN acc
    ELSE FoldKey(Tail(ws), k, MergeStep(acc, IF Head(ws).t = "instance" THEN VUndefined
                                              ELSE VAt(Head(ws), k)))

\* the object the rules of merge give for the arguments ws, key by key
MergeFold(ws) ==
    LET K == UNION {{e.key : e \in {x \in ws[i].c : ~IsSymbol(x.key) /\ x.val.t # "undefined"}} :
                        i \in 1..Len(ws)}
    IN [t |-> "object", n |-> 0, s |-> "",
        c |-> {Entry(k, FoldKey(ws, k, VUndefined)) : k \in K}]

\* C9: merge(o1, ..., on) returns a new object holding, for each (string) key,
\* the arguments' values folded from left to right: undefined is ignored, two
\* plain objects are merged by the same rule, two arrays give the new
\* argument's elements followed by the accumulated ones, and in every other
\* case (a falsy accumulated value included) the later value replaces the
\* earlier.
C9_MergeFoldsLeftToRight ==
    call = "merge" =>
        /\ ret.t = "ref" /\ ret.n > Len(pre)
        /\ Out = MergeFold([i \in 1..Len(args) |-> View(pre, args[i])])

\* three arguments: a falsy value, then two arrays that are concatenated
C9_Witness ==
    /\ call = "merge"
    /\ Len(args) = 3
    /\ VAt(View(pre, args[1]), "k").t \in {"number", "string", "boolean", "null"}
    /\ VAt(View(pre, args[2]), "k").t = "array"
    /\ VAt(View(pre, args[3]), "k").t = "array"
    /\ Cardinality(VAt(Out, "k").c) = 2

\* C10: the join-table name does not depend on the order of the two table
\* names: combineTableNames(t1, t2) = combineTableNames(t2, t1).
C10_CombineSymmetric ==
    (call = "combineTableNames" /\ ncalls = 2) => ret = prev

====
